---------------------------- MODULE Spec2Model ----------------------------
(***************************************************************************)
(* A model of pylandax.Client (src/src/pylandax.py): construction and      *)
(* OAuth token acquisition, the generic CRUD calls, the pagination loop of *)
(* get_all_data, the document operations and the static helpers.           *)
(*                                                                         *)
(* Python values are modelled as follows.                                  *)
(*   str        a sequence of tokens, so that formatting, joining and      *)
(*              URL-encoding are computed and not assumed                  *)
(*   dict       a function whose DOMAIN is the key set; the params dict of *)
(*              the query string, whose order reaches the URL, is a        *)
(*              sequence of <<key, value>> pairs with distinct keys        *)
(*   object     a function from the attribute names that are set           *)
(*   Response   [status_code, content]; content is [text |-> "json",       *)
(*              value |-> v] for a JSON document and [text |-> "raw",      *)
(*              bytes |-> b] for anything else                             *)
(*   outcome    [kind |-> "return", value |-> v] or                        *)
(*              [kind |-> "raise", exc |-> name]                           *)
(***************************************************************************)
EXTENDS Integers, Sequences, FiniteSets, TLC

\* ------------------------------------------------------------------ bounds

\* The most requests one client sends after its construction.
MaxRequests == 1

\* The most pages the server holds for one data model.
MaxPages == 3

\* The longest record list list_to_dict is given.
MaxListLen == 3

\* ------------------------------------------------------ program constants

HTTP_OK == 200

HTTP_NOT_FOUND == 404

INCIDENT_MODULE == 6

COWORKER_MODULE == 10

EQUIPMENT_MODULE == 24

\* ----------------------------------------------------------- Python values

None == [kind |-> "None"]

Return(v) == [kind |-> "return", value |-> v]

Raise(e) == [kind |-> "raise", exc |-> e]

NoOutcome == [kind |-> "none"]

EmptyDict == [k \in {} |-> None]

\* d[k] = v of a dict
DictSet(d, k, v) == [x \in DOMAIN d \cup {k} |-> IF x = k THEN v ELSE d[x]]

\* del d[k] of a dict
DictDel(d, k) == [x \in DOMAIN d \ {k} |-> d[x]]

JsonContent(v) == [text |-> "json", value |-> v]

RawContent(b) == [text |-> "raw", bytes |-> b]

\* Response.json(): the parsed document, or a JSONDecodeError
ResponseJsonRaises(response) == response.content.text # "json"

ResponseJson(response) == response.content.value

\* json.dumps(obj): the JSON text of obj
JsonDumps(obj) == [text |-> "json", value |-> obj]

\* ------------------------------------------------------------------ state

VARIABLES
    phase,          \* where the caller is: "new", "constructed", "unusable", "failed"
    url_arg,        \* Client(url, ...): the host
    credentials,    \* Client(..., credentials): a dict
    client,         \* the attributes set on the Client object
    requests,       \* every HTTP request sent so far, in order
    token_response, \* the answer of authenticate/token, None before there is one
    result,         \* the outcome of the last call
    call,           \* the last call and its arguments
    gad,            \* the frame of a running get_all_data
    server,         \* the pages the server holds for get_all_data
    ltd,            \* the inputs and the outcome of list_to_dict
    log             \* what the last call logged, in order

vars == <<phase, url_arg, credentials, client, requests, token_response,
          result, call, gad, server, ltd, log>>

\* no get_all_data is running
Idle == [pc |-> "idle"]

\* no server of pages
NoServer == <<>>

\* no list_to_dict is running
NoList == [pc |-> "idle"]

\* logger.error(message), logging.error(message), logging.warning(message)
LogRecord(level, message) == [level |-> level, message |-> message]

\* -------------------------------------------------------------- __init__

required_credentials == <<"username", "password", "client_id", "client_secret">>

Version == <<"v20">>

Hosts == {<<"intrixtest.landax.no">>}

CredentialValue(k) == <<k, "-value">>

\* every dict over the credential fields
CredentialDicts ==
    { [k \in S |-> CredentialValue(k)] :
        S \in SUBSET {"username", "password", "client_id", "client_secret"} }

Tokens == {<<"tokA">>, <<"tokB">>}

\* what authenticate/token may answer
TokenResponses ==
    { [status_code |-> s, content |-> c] :
        s \in {200, 401},
        c \in { JsonContent([access_token |-> t, token_type |-> <<"bearer">>]) : t \in Tokens }
              \cup { JsonContent([error |-> <<"invalid_grant">>]),
                     RawContent(<<"<html>">>) } }

\* the first required field missing from the credentials, 0 when none is
FirstMissing(creds) ==
    IF \E i \in 1..Len(required_credentials) : required_credentials[i] \notin DOMAIN creds
    THEN CHOOSE i \in 1..Len(required_credentials) :
            /\ required_credentials[i] \notin DOMAIN creds
            /\ \A j \in 1..(i - 1) : required_credentials[j] \in DOMAIN creds
    ELSE 0

\* the attributes set before the credentials are looked at
BareClient == [a \in {"script_dir", "logger"} |-> <<a>>]

\* the attributes set once all four credentials are there, before the token request
ConfiguredClient(url, creds) ==
    LET base_url == <<"https://">> \o url \o <<"/">>
        fields == [username |-> creds["username"],
                   password |-> creds["password"],
                   client_id |-> creds["client_id"],
                   client_secret |-> creds["client_secret"],
                   base_url |-> base_url,
                   api_url |-> base_url \o <<"api/">> \o Version \o <<"/">>,
                   headers |-> EmptyDict]
    IN  [a \in DOMAIN BareClient \cup DOMAIN fields |->
            IF a \in DOMAIN fields THEN fields[a] ELSE BareClient[a]]

\* the request get_oauth_token sends
TokenRequest(c) ==
    [method |-> "POST",
     url |-> c["base_url"] \o <<"authenticate/token", "?", "grant_type", "=", "password">>,
     headers |-> EmptyDict,
     body |-> [part |-> "json",
               value |-> [client_id |-> c["client_id"],
                          client_secret |-> c["client_secret"],
                          username |-> c["username"],
                          password |-> c["password"]]]]

\* get_oauth_token: its outcome for the response received
get_oauth_token(response) ==
    IF response.status_code # HTTP_OK THEN Raise("LandaxAuthException")
    ELSE IF ResponseJsonRaises(response) THEN Raise("JSONDecodeError")
    ELSE IF "access_token" \notin DOMAIN ResponseJson(response)
         THEN Raise("LandaxAuthException")
    ELSE Return(ResponseJson(response)["access_token"])

\* 'Bearer ' + token
Bearer(token) == <<"Bearer ">> \o token

\* the client after a successful construction
ConstructedClient(url, creds, token) ==
    LET configured == ConfiguredClient(url, creds)
    IN  [a \in DOMAIN configured \cup {"oauth_token"} |->
            IF a = "oauth_token" THEN token
            ELSE IF a = "headers"
                 THEN DictSet(configured["headers"], "Authorization", Bearer(token))
            ELSE configured[a]]

\* __init__ with the credentials looked at only after the URLs and headers are set
InitMissingCredential_checked_late ==
    /\ phase = "new"
    /\ FirstMissing(credentials) # 0
    /\ client' = [a \in DOMAIN BareClient \cup {"base_url", "headers"} |->
                    IF a = "headers" THEN EmptyDict
                    ELSE IF a = "base_url" THEN <<"https://">> \o url_arg \o <<"/">>
                    ELSE BareClient[a]]
    /\ phase' = "unusable"
    /\ result' = Return(None)
    /\ call' = [op |-> "__init__"]
    /\ log' = <<LogRecord("error", <<"Error: credential field is required: ",
                                     required_credentials[FirstMissing(credentials)]>>)>>
    /\ UNCHANGED <<url_arg, credentials, requests, token_response, gad, server, ltd>>

\* Client.__init__ returning early: a required credential is missing
InitMissingCredential ==
    /\ phase = "new"
    /\ FirstMissing(credentials) # 0
    /\ client' = BareClient
    /\ phase' = "unusable"
    /\ result' = Return(None)
    /\ call' = [op |-> "__init__"]
    /\ log' = <<LogRecord("error", <<"Error: credential field is required: ",
                                     required_credentials[FirstMissing(credentials)]>>)>>
    /\ UNCHANGED <<url_arg, credentials, requests, token_response, gad, server, ltd>>

\* Client.__init__ with all four credentials: one token request, then the header
InitAuthenticate ==
    /\ phase = "new"
    /\ FirstMissing(credentials) = 0
    /\ \E response \in TokenResponses :
        LET configured == ConfiguredClient(url_arg, credentials)
            token == get_oauth_token(response)
        IN  /\ requests' = Append(requests, TokenRequest(configured))
            /\ token_response' = response
            /\ call' = [op |-> "__init__"]
            /\ IF token.kind = "raise"
               THEN /\ client' = configured
                    /\ phase' = "failed"
                    /\ result' = token
               ELSE /\ client' = ConstructedClient(url_arg, credentials, token.value)
                    /\ phase' = "constructed"
                    /\ result' = Return(None)
    /\ log' = <<>>
    /\ UNCHANGED <<url_arg, credentials, gad, server, ltd>>

\* ------------------------------------------------------------- requests

\* str(n) of an int
Str(n) == <<ToString(n)>>

\* urllib.parse.quote_plus of one token of a string
quote_plus_token(t) ==
    CASE t = "$" -> "%24"
      [] t = "," -> "%2C"
      [] t = " " -> "+"
      [] OTHER -> t

\* urllib.parse.quote_plus(s)
quote_plus(s) == [i \in 1..Len(s) |-> quote_plus_token(s[i])]

\* a dict whose order matters: its items are <<key, value>> pairs in insertion order
OrderedDict(items) == [kind |-> "dict", items |-> items]

\* urllib.parse.urlencode: the k=v pairs in the dict's order, joined by &
RECURSIVE urlencode(_)
urlencode(items) ==
    IF Len(items) = 0 THEN <<>>
    ELSE LET first == quote_plus(items[1][1]) \o <<"=">> \o quote_plus(items[1][2])
         IN  IF Len(items) = 1 THEN first
             ELSE first \o <<"&">> \o urlencode(Tail(items))

\* Client.generate_url
generate_url(base_url, html_params) ==
    IF Len(html_params.items) = 0 THEN base_url
    ELSE base_url \o <<"?">> \o urlencode(html_params.items)

\* the client can be called: its constructor returned
Callable == phase \in {"constructed", "unusable"} /\ Len(requests) < MaxRequests + 1

\* reading self.api_url or self.headers raises AttributeError on a client whose
\* constructor returned before setting them
HasApi == "api_url" \in DOMAIN client

Statuses == {200, 202, 404}

Contents == {JsonContent([Id |-> 1]), RawContent(<<>>)}

\* what the server may answer to a data or document request
Responses == [status_code : Statuses, content : Contents]

DataModels == {<<"Contacts">>}

RecordIds == {1}

SingleParams == {None, OrderedDict(<< <<(<<"$", "expand">>), <<"Owner">> >> >>)}

JsonData == {[Name |-> <<"Ann">>]}

\* ------------------------------------------------------------ generic CRUD

\* get_single_data without its 404 branch
get_single_data_outcome_no_404(response) ==
    IF ResponseJsonRaises(response) THEN Raise("JSONDecodeError")
    ELSE Return(ResponseJson(response))

\* get_single_data after its GET: None on 404, else the parsed body
get_single_data_outcome(response) ==
    IF response.status_code = HTTP_NOT_FOUND THEN Return(None)
    ELSE IF ResponseJsonRaises(response) THEN Raise("JSONDecodeError")
    ELSE Return(ResponseJson(response))

get_single_data ==
    /\ Callable
    /\ \E data_model \in DataModels, data_id \in RecordIds, params \in SingleParams,
          response \in Responses :
        /\ call' = [op |-> "get_single_data", data_model |-> data_model,
                    data_id |-> data_id, params |-> params, response |-> response]
        /\ IF ~HasApi
           THEN /\ result' = Raise("AttributeError")
                /\ UNCHANGED requests
           ELSE LET given == IF params = None THEN OrderedDict(<<>>) ELSE params
                    base_url == client["api_url"] \o data_model \o <<"(">> \o Str(data_id) \o <<")">>
                IN  /\ requests' = Append(requests,
                            [method |-> "GET", url |-> generate_url(base_url, given),
                             headers |-> client["headers"], body |-> [part |-> "none"]])
                    /\ result' = get_single_data_outcome(response)
    /\ log' = <<>>
    /\ UNCHANGED <<phase, url_arg, credentials, client, token_response, gad, server, ltd>>

\* post_data with the headers dict shared instead of deep-copied
post_data_shared_headers ==
    /\ Callable
    /\ \E data_model \in DataModels, data \in JsonData, response \in Responses :
        /\ call' = [op |-> "post_data", data_model |-> data_model, data |-> data,
                    response |-> response]
        /\ IF ~HasApi
           THEN /\ result' = Raise("AttributeError")
                /\ UNCHANGED <<requests, client>>
           ELSE LET headers == DictSet(client["headers"], "Content-Type", <<"application/json">>)
                IN  /\ requests' = Append(requests,
                            [method |-> "POST", url |-> client["api_url"] \o data_model,
                             headers |-> headers, body |-> [part |-> "json", value |-> data]])
                    /\ client' = [client EXCEPT !["headers"] = headers]
                    /\ result' = Return(response)
    /\ log' = <<>>
    /\ UNCHANGED <<phase, url_arg, credentials, token_response, gad, server, ltd>>

post_data ==
    /\ Callable
    /\ \E data_model \in DataModels, data \in JsonData, response \in Responses :
        /\ call' = [op |-> "post_data", data_model |-> data_model, data |-> data,
                    response |-> response]
        /\ IF ~HasApi
           THEN /\ result' = Raise("AttributeError")
                /\ UNCHANGED requests
           ELSE LET headers == DictSet(client["headers"], "Content-Type", <<"application/json">>)
                IN  /\ requests' = Append(requests,
                            [method |-> "POST", url |-> client["api_url"] \o data_model,
                             headers |-> headers, body |-> [part |-> "json", value |-> data]])
                    /\ result' = Return(response)
    /\ log' = <<>>
    /\ UNCHANGED <<phase, url_arg, credentials, client, token_response, gad, server, ltd>>

patch_data ==
    /\ Callable
    /\ \E data_model \in DataModels, key \in RecordIds, data \in JsonData,
          response \in Responses :
        /\ call' = [op |-> "patch_data", data_model |-> data_model, key |-> key,
                    data |-> data, response |-> response]
        /\ IF ~HasApi
           THEN /\ result' = Raise("AttributeError")
                /\ UNCHANGED requests
           ELSE LET headers == DictSet(client["headers"], "Content-Type", <<"application/json">>)
                IN  /\ requests' = Append(requests,
                            [method |-> "PATCH",
                             url |-> client["api_url"] \o data_model \o <<"(">> \o Str(key) \o <<")">>,
                             headers |-> headers, body |-> [part |-> "json", value |-> data]])
                    /\ result' = Return(response)
    /\ log' = <<>>
    /\ UNCHANGED <<phase, url_arg, credentials, client, token_response, gad, server, ltd>>

delete_data ==
    /\ Callable
    /\ \E data_model \in DataModels, key \in RecordIds, response \in Responses :
        /\ call' = [op |-> "delete_data", data_model |-> data_model, key |-> key,
                    response |-> response]
        /\ IF ~HasApi
           THEN /\ result' = Raise("AttributeError")
                /\ UNCHANGED requests
           ELSE /\ requests' = Append(requests,
                        [method |-> "DELETE",
                         url |-> client["api_url"] \o data_model \o <<"(">> \o Str(key)
                                 \o <<")", "?", "$", "format", "=", "json">>,
                         headers |-> client["headers"], body |-> [part |-> "none"]])
                /\ result' = Return(response)
    /\ log' = <<>>
    /\ UNCHANGED <<phase, url_arg, credentials, client, token_response, gad, server, ltd>>

Methods == {"GET", "POST", "PATCH", "DELETE", "PUT"}

custom_request ==
    /\ Callable
    /\ \E partial_url \in {<<"Documents/GetDocument">>}, method \in Methods,
          data \in JsonData, response \in Responses :
        /\ call' = [op |-> "custom_request", partial_url |-> partial_url,
                    method |-> method, data |-> data, response |-> response]
        /\ IF ~HasApi
           THEN /\ result' = Raise("AttributeError")
                /\ UNCHANGED requests
           ELSE IF method \notin {"GET", "POST", "PATCH", "DELETE"}
           THEN /\ result' = Raise("ValueError")
                /\ UNCHANGED requests
           ELSE /\ requests' = Append(requests,
                        [method |-> method, url |-> client["api_url"] \o partial_url,
                         headers |-> client["headers"],
                         body |-> IF method \in {"POST", "PATCH"}
                                  THEN [part |-> "json", value |-> data]
                                  ELSE [part |-> "none"]])
                /\ result' = Return(response)
    /\ log' = <<>>
    /\ UNCHANGED <<phase, url_arg, credentials, client, token_response, gad, server, ltd>>

\* ------------------------------------------------------ document operations

\* an int argument that may also be None
IntArg(n) == [kind |-> "int", n |-> n]

\* io.BytesIO(b)
BytesIO(b) == [kind |-> "BytesIO", content |-> b]

FileData == {BytesIO(<<"%PDF">>)}

FileNames == {<<"report.pdf">>}

\* documents_createdocument: the multipart request it sends
documents_createdocument(c, filedata, filename, document_object, document_link) ==
    LET files == [document |-> [filename |-> None, data |-> JsonDumps(document_object)],
                  fileData |-> [filename |-> filename, data |-> filedata]]
    IN  [method |-> "POST",
         url |-> c["api_url"] \o <<"Documents/CreateDocument">>,
         headers |-> c["headers"],
         body |-> [part |-> "files",
                   value |-> IF document_link # None
                             THEN DictSet(files, "documentLink",
                                          [filename |-> None, data |-> JsonDumps(document_link)])
                             ELSE files]]

\* upload_document: the document options it hands to documents_createdocument
upload_document_options(folder_id, document_options) ==
    LET given == IF document_options = None THEN EmptyDict ELSE document_options
        kept == IF "ModuleId" \in DOMAIN given THEN DictDel(given, "ModuleId") ELSE given
    IN  DictSet(kept, "FolderId", folder_id)

\* upload_document: the warnings about FolderId and ModuleId in document_options
upload_document_warnings(document_options) ==
    LET given == IF document_options = None THEN EmptyDict ELSE document_options
    IN  (IF "FolderId" \in DOMAIN given
         THEN <<LogRecord("warning", <<"upload_document does not support FolderId">>)>>
         ELSE <<>>)
        \o (IF "ModuleId" \in DOMAIN given
            THEN <<LogRecord("warning", <<"upload_document does not support ModuleId">>)>>
            ELSE <<>>)

DocumentOptions == {None, [ModuleId |-> 99, Number |-> <<"D-1">>], [FolderId |-> IntArg(1)]}

upload_document ==
    /\ Callable
    /\ \E filedata \in FileData, filename \in FileNames, folder_id \in {IntArg(7)},
          document_options \in DocumentOptions, response \in Responses :
        /\ call' = [op |-> "upload_document", filedata |-> filedata, filename |-> filename,
                    folder_id |-> folder_id, document_options |-> document_options,
                    response |-> response]
        /\ IF ~HasApi
           THEN /\ result' = Raise("AttributeError")
                /\ UNCHANGED requests
           ELSE /\ requests' = Append(requests,
                        documents_createdocument(client, filedata, filename,
                            upload_document_options(folder_id, document_options), None))
                /\ result' = Return(response)
        /\ log' = upload_document_warnings(document_options)
    /\ UNCHANGED <<phase, url_arg, credentials, client, token_response, gad, server, ltd>>

\* the values upload_document_from_file is given as file: a str, a Path to nothing,
\* a Path to a file
FileArguments ==
    { [kind |-> "str", name |-> <<"report.pdf">>],
      [kind |-> "Path", name |-> <<"report.pdf">>, exists |-> FALSE],
      [kind |-> "Path", name |-> <<"report.pdf">>, exists |-> TRUE, bytes |-> <<"%PDF">>],
      [kind |-> "Path", name |-> <<"empty.txt">>, exists |-> TRUE, bytes |-> <<>>] }

DocumentObjects == {None, EmptyDict, [Number |-> <<"D-1">>]}

\* upload_document_from_file: the arguments are checked, then
\* self.upload_document(document_bytes, file.name, document_object) is called, whose
\* third positional parameter is folder_id
upload_document_from_file ==
    /\ Callable
    /\ \E file \in FileArguments, document_object \in DocumentObjects,
          response \in Responses :
        /\ call' = [op |-> "upload_document_from_file", file |-> file,
                    document_object |-> document_object, response |-> response]
        /\ IF file.kind # "Path"
           THEN /\ result' = Raise("TypeError")
                /\ UNCHANGED requests
           ELSE IF ~file.exists
           THEN /\ result' = Raise("FileNotFoundError")
                /\ UNCHANGED requests
           ELSE IF ~HasApi
           THEN /\ result' = Raise("AttributeError")
                /\ UNCHANGED requests
           ELSE LET object == IF document_object = None THEN EmptyDict ELSE document_object
                IN  /\ requests' = Append(requests,
                            documents_createdocument(client, BytesIO(file.bytes), file.name,
                                upload_document_options(object, None), None))
                    /\ result' = Return(response)
    /\ log' = <<>>
    /\ UNCHANGED <<phase, url_arg, credentials, client, token_response, gad, server, ltd>>

\* the names and ids modules.json may hold
ModuleNames == {"INCIDENTS"}

ModuleIds == {INCIDENT_MODULE, COWORKER_MODULE, EQUIPMENT_MODULE, 17}

\* the module tables json.loads(modules.json) may give: every dict from some of the
\* names to the ids
ModuleTables == UNION { [S -> ModuleIds] : S \in SUBSET ModuleNames }

\* the mapping with one more module in it
id_key_mapping_one_more ==
    [i \in {INCIDENT_MODULE, COWORKER_MODULE, EQUIPMENT_MODULE, 17} |->
        CASE i = INCIDENT_MODULE -> "IncidentId"
          [] i = COWORKER_MODULE -> "CoworkerId"
          [] i = EQUIPMENT_MODULE -> "EquipmentId"
          [] OTHER -> "ProjectId"]

\* the mapping from a module id to the field of the DocumentLink object
id_key_mapping ==
    [i \in {INCIDENT_MODULE, COWORKER_MODULE, EQUIPMENT_MODULE} |->
        CASE i = INCIDENT_MODULE -> "IncidentId"
          [] i = COWORKER_MODULE -> "CoworkerId"
          [] i = EQUIPMENT_MODULE -> "EquipmentId"]

\* upload_linked_document with the caller's ModuleId left in the document options
upload_linked_document_plan_keeps_module_id(modules, folder_id, module_name, linked_object_id, document_options) ==
    LET given == IF document_options = None THEN EmptyDict ELSE document_options
    IN  IF module_name \notin DOMAIN modules THEN [upload |-> FALSE]
        ELSE IF modules[module_name] \notin DOMAIN id_key_mapping THEN [upload |-> FALSE]
        ELSE LET module_id == modules[module_name]
                 link == [k \in {id_key_mapping[module_id]} |-> linked_object_id]
             IN  [upload |-> TRUE,
                  document_options |-> IF "ModuleId" \in DOMAIN given THEN given
                                       ELSE DictSet(given, "ModuleId", module_id),
                  document_link |-> IF folder_id # None
                                    THEN DictSet(link, "FolderId", folder_id)
                                    ELSE link]

\* upload_linked_document up to its upload: the module is looked up, and either
\* None is returned or the document options and the document link are built
upload_linked_document_plan(modules, folder_id, module_name, linked_object_id, document_options) ==
    LET given == IF document_options = None THEN EmptyDict ELSE document_options
    IN  IF module_name \notin DOMAIN modules THEN [upload |-> FALSE]
        ELSE IF modules[module_name] \notin DOMAIN id_key_mapping THEN [upload |-> FALSE]
        ELSE LET module_id == modules[module_name]
                 link == [k \in {id_key_mapping[module_id]} |-> linked_object_id]
             IN  [upload |-> TRUE,
                  document_options |-> DictSet(given, "ModuleId", module_id),
                  document_link |-> IF folder_id # None
                                    THEN DictSet(link, "FolderId", folder_id)
                                    ELSE link]

\* upload_linked_document: the warnings about FolderId and ModuleId in document_options
upload_linked_document_warnings(document_options) ==
    LET given == IF document_options = None THEN EmptyDict ELSE document_options
    IN  (IF "FolderId" \in DOMAIN given
         THEN <<LogRecord("warning", <<"upload_linked_document does not support FolderId">>)>>
         ELSE <<>>)
        \o (IF "ModuleId" \in DOMAIN given
            THEN <<LogRecord("warning", <<"upload_linked_document does not support ModuleId">>)>>
            ELSE <<>>)

\* upload_linked_document: the error logged when the module is not linkable
upload_linked_document_lookup_error(modules, module_name) ==
    IF module_name \notin DOMAIN modules
    THEN <<LogRecord("error", <<"Module ", module_name, " not found.">>)>>
    ELSE <<LogRecord("error", <<"Module ", module_name, "'s id has no mapping to key">>)>>

\* upload_linked_document after its upload: a status other than 200 is logged
upload_linked_document_upload_error(filename, upload_response) ==
    IF upload_response.status_code # HTTP_OK
    THEN <<LogRecord("error", <<"Error uploading document with filename ">> \o filename)>>
    ELSE <<>>

LinkedOptions == {None, [ModuleId |-> 99]}

upload_linked_document ==
    /\ Callable
    /\ \E filedata \in FileData, filename \in FileNames, folder_id \in {None, IntArg(7)},
          module_name \in ModuleNames \cup {"UNKNOWN"}, linked_object_id \in {IntArg(40)},
          document_options \in LinkedOptions, modules \in ModuleTables,
          response \in Responses :
        LET plan == upload_linked_document_plan(modules, folder_id, module_name,
                                                linked_object_id, document_options)
        IN  /\ call' = [op |-> "upload_linked_document", filedata |-> filedata,
                        filename |-> filename, folder_id |-> folder_id,
                        module_name |-> module_name, linked_object_id |-> linked_object_id,
                        document_options |-> document_options, modules |-> modules,
                        response |-> response]
            /\ IF ~plan.upload
               THEN /\ result' = Return(None)
                    /\ log' = upload_linked_document_warnings(document_options)
                               \o upload_linked_document_lookup_error(modules, module_name)
                    /\ UNCHANGED requests
               ELSE IF ~HasApi
               THEN /\ result' = Raise("AttributeError")
                    /\ log' = upload_linked_document_warnings(document_options)
                    /\ UNCHANGED requests
               ELSE /\ requests' = Append(requests,
                            documents_createdocument(client, filedata, filename,
                                plan.document_options, plan.document_link))
                    /\ log' = upload_linked_document_warnings(document_options)
                               \o upload_linked_document_upload_error(filename, response)
                    /\ result' = Return(response)
    /\ UNCHANGED <<phase, url_arg, credentials, client, token_response, gad, server, ltd>>

DocumentIds == {42}

\* get_document_content taking every 2xx status for a success
get_document_content_outcome_any_2xx(response) ==
    IF response.status_code \notin {200, 202} THEN Raise("LandaxDataException")
    ELSE Return(BytesIO(response.content))

\* get_document_content after its GET: the content on 200, else a data exception
get_document_content_outcome(response) ==
    IF response.status_code # HTTP_OK THEN Raise("LandaxDataException")
    ELSE Return(BytesIO(response.content))

get_document_content ==
    /\ Callable
    /\ \E document_id \in DocumentIds, as_pdf \in BOOLEAN, response \in Responses :
        /\ call' = [op |-> "get_document_content", document_id |-> document_id,
                    as_pdf |-> as_pdf, response |-> response]
        /\ IF ~HasApi
           THEN /\ result' = Raise("AttributeError")
                /\ UNCHANGED requests
           ELSE LET original_arg == IF as_pdf THEN "False" ELSE "True"
                IN  /\ requests' = Append(requests,
                            [method |-> "GET",
                             url |-> client["api_url"] \o
                                     <<"Documents/GetContent", "?", "documentid", "=">>
                                     \o Str(document_id) \o
                                     <<"&", "original", "=", original_arg,
                                       "&", "encode", "=", "raw">>,
                             headers |-> client["headers"], body |-> [part |-> "none"]])
                    /\ result' = get_document_content_outcome(response)
    /\ log' = <<>>
    /\ UNCHANGED <<phase, url_arg, credentials, client, token_response, gad, server, ltd>>

push_document_content ==
    /\ Callable
    /\ \E document_data \in FileData, document_id \in DocumentIds, response \in Responses :
        /\ call' = [op |-> "push_document_content", document_data |-> document_data,
                    document_id |-> document_id, response |-> response]
        /\ IF ~HasApi
           THEN /\ result' = Raise("AttributeError")
                /\ UNCHANGED requests
           ELSE /\ requests' = Append(requests,
                        [method |-> "POST",
                         url |-> client["api_url"] \o
                                 <<"Documents/PushContent", "?", "documentid", "=">>
                                 \o Str(document_id),
                         headers |-> client["headers"],
                         body |-> [part |-> "data", value |-> document_data.content]])
                /\ result' = Return(response)
    /\ log' = <<>>
    /\ UNCHANGED <<phase, url_arg, credentials, client, token_response, gad, server, ltd>>

\* ------------------------------------------------------------ get_all_data

\* key in params
ParamsHas(params, key) == \E i \in 1..Len(params.items) : params.items[i][1] = key

\* del params[key]
ParamsDel(params, key) ==
    LET Keep(pair) == pair[1] # key
    IN  OrderedDict(SelectSeq(params.items, Keep))

\* params[key] = value: in place when the key is there, else at the end
ParamsSet(params, key, value) ==
    IF ParamsHas(params, key)
    THEN OrderedDict([i \in 1..Len(params.items) |->
                        IF params.items[i][1] = key THEN <<key, value>> ELSE params.items[i]])
    ELSE OrderedDict(Append(params.items, <<key, value>>))

\* sep.join(strings)
RECURSIVE join(_, _)
join(sep, strings) ==
    IF Len(strings) = 0 THEN <<>>
    ELSE IF Len(strings) = 1 THEN strings[1]
    ELSE strings[1] \o sep \o join(sep, Tail(strings))

TOP == <<"$", "top">>

SKIP == <<"$", "skip">>

SELECT == <<"$", "select">>

FILTER == <<"$", "filter">>

\* a Python list
List(items) == [kind |-> "list", items |-> items]

\* get_all_data leaving $skip in the params
get_all_data_params_keeps_skip(params, select) ==
    LET given == IF params = None THEN OrderedDict(<<>>) ELSE params
        no_top == IF ParamsHas(given, TOP) THEN ParamsDel(given, TOP) ELSE given
    IN  IF select # None
        THEN ParamsSet(no_top, SELECT, join(<<",">>, select.items))
        ELSE no_top

\* get_all_data: the params it sends, $top and $skip deleted and $select set
get_all_data_params(params, select) ==
    LET given == IF params = None THEN OrderedDict(<<>>) ELSE params
        no_top == IF ParamsHas(given, TOP) THEN ParamsDel(given, TOP) ELSE given
        no_skip == IF ParamsHas(no_top, SKIP) THEN ParamsDel(no_top, SKIP) ELSE no_top
    IN  IF select # None
        THEN ParamsSet(no_skip, SELECT, join(<<",">>, select.items))
        ELSE no_skip

\* get_all_data: its first URL
get_all_data_initial_url(c, data_model, params, select) ==
    generate_url(c["api_url"] \o data_model, get_all_data_params(params, select))

\* the loop's data = data + response.json()['value'], with the operands swapped
get_all_data_extend_swapped(data, response) == ResponseJson(response)["value"] \o data

\* the loop's data = data + response.json()['value']
get_all_data_extend(data, response) == data \o ResponseJson(response)["value"]

\* request_raw: the GET it sends
request_raw(c, url) ==
    [method |-> "GET", url |-> url, headers |-> c["headers"], body |-> [part |-> "none"]]

\* -- the server of the pages

\* the records of page i: their number varies, their ids tell the page and the place
PageValue(i, n) == [k \in 1..n |-> [Id |-> 10 * i + k]]

PageLengths == {0, 1, 2}

\* every server: up to MaxPages pages, each with its records and the page its
\* nextLink leads to (0: no nextLink), always a later page
Servers ==
    UNION { { [i \in 1..n |-> [value |-> PageValue(i, len[i]), next |-> nxt[i]]] :
                len \in [1..n -> PageLengths],
                nxt \in { f \in [1..n -> 0..n] : \A i \in 1..n : f[i] = 0 \/ f[i] > i } } :
            n \in 1..MaxPages }

\* the nextLink that leads to page j
NextLink(c, j) == c["api_url"] \o <<"Contacts", "?", "%24skiptoken", "=", ToString(j)>>

IsNextLink(url) == Len(url) > 3 /\ url[Len(url) - 2] = "%24skiptoken"

\* the JSON body of page i
PageBody(c, i) ==
    IF server[i].next = 0 THEN [value |-> server[i].value]
    ELSE DictSet([value |-> server[i].value], "@odata.nextLink", NextLink(c, server[i].next))

\* what the server answers to a GET: the page of a nextLink, else the first page, of
\* which $top=1 leaves the first record and $skip=1 all but the first
ServerAnswer(c, url) ==
    LET HasQuery(k) == \E i \in 1..Len(url) : url[i] = k
    IN  IF IsNextLink(url)
        THEN [status_code |-> 200,
              content |-> JsonContent(
                  PageBody(c, CHOOSE j \in 1..Len(server) : ToString(j) = url[Len(url)]))]
        ELSE IF HasQuery("top")
        THEN [status_code |-> 200,
              content |-> JsonContent([value |-> SubSeq(server[1].value, 1, 1)])]
        ELSE IF HasQuery("skip")
        THEN [status_code |-> 200,
              content |-> JsonContent(
                  [PageBody(c, 1) EXCEPT !["value"] = SubSeq(@, 2, Len(@))])]
        ELSE [status_code |-> 200, content |-> JsonContent(PageBody(c, 1))]

\* the params dicts get_all_data is called with
PagingParams ==
    { OrderedDict(items) : items \in
        { <<>>,
          << <<FILTER, <<"Id", " ", "gt", " ", "1">> >> >>,
          << <<TOP, <<"1">> >> >>,
          << <<SKIP, <<"1">> >> >>,
          << <<TOP, <<"1">> >>, <<FILTER, <<"Id", " ", "gt", " ", "1">> >> >>,
          << <<FILTER, <<"Id", " ", "gt", " ", "1">> >>, <<SKIP, <<"1">> >> >>,
          << <<SKIP, <<"1">> >>, <<SELECT, <<"Id">> >>, <<TOP, <<"1">> >> >>,
          << <<SELECT, <<"Id">> >>, <<FILTER, <<"Id", " ", "gt", " ", "1">> >> >> } }

Selects == {None, List(<< <<"Id">>, <<"Name">> >>)}

\* get_all_data up to its loop: the first request and the first page's records
GetAllDataCall(data_model, params, select, run) ==
    LET initial_url == get_all_data_initial_url(client, data_model, params, select)
        response == ServerAnswer(client, initial_url)
    IN  /\ requests' = Append(requests, request_raw(client, initial_url))
        /\ gad' = [pc |-> "loop", run |-> run, data_model |-> data_model,
                   params |-> params, select |-> select, initial_url |-> initial_url,
                   first_request |-> Len(requests) + 1,
                   response |-> response, data |-> ResponseJson(response)["value"],
                   before |-> IF run = 1 THEN None ELSE gad]
        /\ call' = [op |-> "get_all_data"]
        /\ result' = NoOutcome
        /\ UNCHANGED <<phase, url_arg, credentials, client, token_response, server, ltd,
                       log>>

\* get_all_data(data_model, params, select) is called
get_all_data ==
    /\ phase = "constructed"
    /\ gad.pc = "idle"
    /\ \E data_model \in DataModels, params \in PagingParams \cup {None}, select \in Selects :
        GetAllDataCall(data_model, params, select, 1)

\* the caller's copy of a params dict without the keys $top and $skip
WithoutTopSkip(params) ==
    IF params = None THEN None
    ELSE LET Keep(pair) == pair[1] \notin {TOP, SKIP}
         IN  OrderedDict(SelectSeq(params.items, Keep))

\* get_all_data is called once more, with $top and $skip taken out of the params
get_all_data_again ==
    /\ phase = "constructed"
    /\ gad.pc = "done"
    /\ gad.run = 1
    /\ GetAllDataCall(gad.data_model, WithoutTopSkip(gad.params), gad.select, 2)

\* one turn of the loop: the response has a nextLink, which is fetched
get_all_data_loop ==
    /\ gad.pc = "loop"
    /\ "@odata.nextLink" \in DOMAIN ResponseJson(gad.response)
    /\ LET new_url == ResponseJson(gad.response)["@odata.nextLink"]
           response == ServerAnswer(client, new_url)
       IN  /\ requests' = Append(requests, request_raw(client, new_url))
           /\ gad' = [gad EXCEPT !.response = response,
                                 !.data = get_all_data_extend(gad.data, response)]
    /\ UNCHANGED <<phase, url_arg, credentials, client, token_response, result, call,
                   server, ltd, log>>

\* the loop ends: the response has no nextLink, and the records are returned
get_all_data_return ==
    /\ gad.pc = "loop"
    /\ "@odata.nextLink" \notin DOMAIN ResponseJson(gad.response)
    /\ gad' = [gad EXCEPT !.pc = "done"]
    /\ result' = Return(List(gad.data))
    /\ UNCHANGED <<phase, url_arg, credentials, client, token_response, requests, call,
                   server, ltd, log>>

InitPaging ==
    /\ phase = "constructed"
    /\ url_arg \in Hosts
    /\ credentials = [k \in {"username", "password", "client_id", "client_secret"} |->
                        CredentialValue(k)]
    /\ client = ConstructedClient(url_arg, credentials, <<"tokA">>)
    /\ requests = <<>>
    /\ token_response =
          [status_code |-> 200,
           content |-> JsonContent([access_token |-> <<"tokA">>, token_type |-> <<"bearer">>])]
    /\ result = NoOutcome
    /\ call = [op |-> "none"]
    /\ gad = Idle
    /\ server \in Servers
    /\ ltd = NoList
    /\ log = <<>>

NextPaging ==
    \/ get_all_data
    \/ get_all_data_again
    \/ get_all_data_loop
    \/ get_all_data_return

SpecPaging == InitPaging /\ [][NextPaging]_vars

\* ------------------------------------------------------------ list_to_dict

\* the records list_to_dict is given: two share an Id, two a Name, one has no Id
ListRecords ==
    { [Id |-> 1, Name |-> "a"], [Id |-> 1, Name |-> "b"], [Id |-> 2, Name |-> "a"],
      [Name |-> "c"] }

RecordLists == UNION { [1..n -> ListRecords] : n \in 0..MaxListLen }

MetaKeys == {"Id", "Name"}

\* return_dict[key] = record, done only for a key that is not there yet
list_to_dict_store_first_wins(return_dict, key, record) ==
    IF key \in DOMAIN return_dict THEN return_dict ELSE DictSet(return_dict, key, record)

\* return_dict[key] = record
list_to_dict_store(return_dict, key, record) == DictSet(return_dict, key, record)

\* list_to_dict(list_in, metakey) is called: return_dict = {}
list_to_dict ==
    /\ ltd.pc = "idle"
    /\ \E list_in \in RecordLists, metakey \in MetaKeys :
        ltd' = [pc |-> "loop", list_in |-> list_in, metakey |-> metakey, i |-> 1,
                return_dict |-> EmptyDict, outcome |-> NoOutcome]
    /\ UNCHANGED <<phase, url_arg, credentials, client, requests, token_response, result,
                   call, gad, server, log>>

\* one turn of the loop: record[metakey] raises KeyError when the record has no such
\* field, else the record is stored under it
list_to_dict_loop ==
    /\ ltd.pc = "loop"
    /\ ltd.i <= Len(ltd.list_in)
    /\ LET record == ltd.list_in[ltd.i]
       IN  IF ltd.metakey \notin DOMAIN record
           THEN ltd' = [ltd EXCEPT !.pc = "done", !.outcome = Raise("KeyError")]
           ELSE ltd' = [ltd EXCEPT !.i = @ + 1,
                                   !.return_dict =
                                       list_to_dict_store(@, record[ltd.metakey], record)]
    /\ UNCHANGED <<phase, url_arg, credentials, client, requests, token_response, result,
                   call, gad, server, log>>

\* the loop is over: return_dict is returned
list_to_dict_return ==
    /\ ltd.pc = "loop"
    /\ ltd.i > Len(ltd.list_in)
    /\ ltd' = [ltd EXCEPT !.pc = "done", !.outcome = Return(ltd.return_dict)]
    /\ UNCHANGED <<phase, url_arg, credentials, client, requests, token_response, result,
                   call, gad, server, log>>

InitList ==
    /\ phase = "new"
    /\ url_arg \in Hosts
    /\ credentials = EmptyDict
    /\ client = EmptyDict
    /\ requests = <<>>
    /\ token_response = None
    /\ result = NoOutcome
    /\ call = [op |-> "none"]
    /\ gad = Idle
    /\ server = NoServer
    /\ ltd = NoList
    /\ log = <<>>

NextList ==
    \/ list_to_dict
    \/ list_to_dict_loop
    \/ list_to_dict_return

SpecList == InitList /\ [][NextList]_vars

\* ------------------------------------------------------------ the client

Init ==
    /\ phase = "new"
    /\ url_arg \in Hosts
    /\ credentials \in CredentialDicts
    /\ client = EmptyDict
    /\ requests = <<>>
    /\ token_response = None
    /\ result = NoOutcome
    /\ call = [op |-> "none"]
    /\ gad = Idle
    /\ server = NoServer
    /\ ltd = NoList
    /\ log = <<>>

Next ==
    \/ InitMissingCredential
    \/ InitAuthenticate
    \/ get_single_data
    \/ post_data
    \/ patch_data
    \/ delete_data
    \/ custom_request
    \/ upload_document
    \/ upload_document_from_file
    \/ upload_linked_document
    \/ get_document_content
    \/ push_document_content

Spec == Init /\ [][Next]_vars

\* ------------------------------------------------------------ properties

\* the pages a call follows: the first page, then the page of each nextLink
RECURSIVE ChainFrom(_)
ChainFrom(i) == IF server[i].next = 0 THEN <<i>> ELSE <<i>> \o ChainFrom(server[i].next)

\* value(p1) ++ ... ++ value(pk) of the first k pages of a chain
RECURSIVE ChainValues(_, _)
ChainValues(chain, k) ==
    IF k = 0 THEN <<>> ELSE ChainValues(chain, k - 1) \o server[chain[k]].value

RECURSIVE ChainCount(_, _)
ChainCount(chain, k) ==
    IF k = 0 THEN 0 ELSE ChainCount(chain, k - 1) + Len(server[chain[k]].value)

\* the GETs the running (or last) get_all_data has sent
GetsOfCall == SubSeq(requests, gad.first_request, Len(requests))

\* C1: over the chain p1..pn of pages linked by nextLink, get_all_data sends one GET
\* per page, the first to the URL generated for the data model and each later one to
\* the nextLink of the page before, never goes past the first page without a
\* nextLink, and returns value(p1) ++ ... ++ value(pn), whose length is the sum of
\* the pages' lengths.
C1_PagesConcatenatedInOrder ==
    gad.pc \in {"loop", "done"} =>
        LET chain == ChainFrom(1)
            k == Len(GetsOfCall)
            base == client["api_url"] \o gad.data_model
        IN  /\ k >= 1
            /\ k <= Len(chain)
            /\ \A r \in 1..k : GetsOfCall[r].method = "GET"
            /\ SubSeq(GetsOfCall[1].url, 1, Len(base)) = base
            /\ ~IsNextLink(GetsOfCall[1].url)
            /\ \A r \in 2..k : GetsOfCall[r].url = NextLink(client, chain[r])
            /\ gad.data = ChainValues(chain, k)
            /\ gad.pc = "done" =>
                  /\ k = Len(chain)
                  /\ result = Return(List(ChainValues(chain, Len(chain))))
                  /\ Len(result.value.items) = ChainCount(chain, Len(chain))

C1_Witness ==
    /\ gad.pc = "done"
    /\ Len(server) = 3
    /\ ChainFrom(1) = <<1, 3>>
    /\ Len(GetsOfCall) = 2
    /\ result.value.items = <<[Id |-> 11], [Id |-> 12], [Id |-> 31]>>

\* C2: $top and $skip never reach a query string, and a call whose params hold $top
\* or $skip sends the first URL and returns the records of the same call with the
\* two keys taken out of the params.
C2_TopSkipStripped ==
    /\ \A i \in DOMAIN requests :
          \A j \in DOMAIN requests[i].url : requests[i].url[j] \notin {"top", "skip"}
    /\ (gad.pc = "done" /\ gad.run = 2) =>
          /\ requests[gad.first_request].url = requests[gad.before.first_request].url
          /\ gad.data = gad.before.data

C2_Witness ==
    /\ gad.pc = "done"
    /\ gad.run = 2
    /\ gad.before.params # None
    /\ ParamsHas(gad.before.params, TOP)
    /\ ParamsHas(gad.before.params, SKIP)
    /\ gad.before.select # None
    /\ Len(gad.data) >= 3

\* the URL of the token endpoint of the host the client was given
TokenUrl ==
    <<"https://">> \o url_arg \o <<"/", "authenticate/token", "?", "grant_type", "=", "password">>

TokenRequestsSent == {i \in DOMAIN requests : requests[i].url = TokenUrl}

\* the token endpoint answered 200 with an access_token
TokenGranted ==
    /\ token_response # None
    /\ token_response.status_code = 200
    /\ token_response.content.text = "json"
    /\ "access_token" \in DOMAIN token_response.content.value

\* C3: with all four credentials and a token endpoint answering 200 with an
\* access_token, the construction succeeds with exactly one token request, and in
\* every state from then on, whatever operations were called, the token is the one
\* of that answer, the default headers are exactly Authorization = 'Bearer ' + token
\* and there is still exactly one token request.
C3_TokenHeldOnce ==
    TokenGranted =>
        /\ phase = "constructed"
        /\ client["oauth_token"] = token_response.content.value["access_token"]
        /\ client["headers"] =
              [h \in {"Authorization"} |->
                  <<"Bearer ">> \o token_response.content.value["access_token"]]
        /\ Cardinality(TokenRequestsSent) = 1

C3_Witness ==
    /\ TokenGranted
    /\ call.op = "post_data"
    /\ Len(requests) = 2
    /\ "Content-Type" \in DOMAIN requests[2].headers

\* the arguments of an upload_linked_document call name no linkable module
NotLinkable(c) ==
    \/ c.module_name \notin DOMAIN c.modules
    \/ c.modules[c.module_name] \notin {6, 10, 24}

C5_NotFoundIsNone ==
    (call.op = "get_single_data" /\ HasApi /\ call.response.status_code = 404)
        => result = Return(None)

C5_Witness ==
    /\ call.op = "get_single_data"
    /\ HasApi
    /\ call.response.status_code = 404
    /\ call.response.content.text = "raw"
    /\ call.params # None
    /\ result = Return(None)

\* C6: get_document_content returns content only when the status is 200; on every
\* other status, 202 with as_pdf=True included, it raises LandaxDataException.
C6_ContentOnlyOn200 ==
    (call.op = "get_document_content" /\ HasApi) =>
        /\ result.kind = "return" => call.response.status_code = 200
        /\ call.response.status_code # 200 => result = Raise("LandaxDataException")

C6_Witness ==
    /\ call.op = "get_document_content"
    /\ HasApi
    /\ call.as_pdf
    /\ call.response.status_code = 202
    /\ call.response.content = RawContent(<<>>)
    /\ result = Raise("LandaxDataException")

\* C7: whenever the token response has a status other than 200, or status 200 and a
\* body without an access_token field, the construction fails with
\* LandaxAuthException and no Authorization header is set.
C7_AuthFailureRaisesAuthException ==
    (token_response # None /\ ~TokenGranted) =>
        /\ phase = "failed"
        /\ result = Raise("LandaxAuthException")
        /\ "Authorization" \notin DOMAIN client["headers"]

\* C8: with a required credential missing the constructor returns without raising,
\* sends no token request and sets no token, no URL and no header on the client.
C8_MissingCredentialLeavesClientBare ==
    (phase # "new" /\ \E k \in {"username", "password", "client_id", "client_secret"} :
                         k \notin DOMAIN credentials) =>
        /\ phase = "unusable"
        /\ requests = <<>>
        /\ token_response = None
        /\ DOMAIN client \cap {"oauth_token", "base_url", "api_url", "headers"} = {}

C8_Witness ==
    /\ phase = "unusable"
    /\ "client_secret" \notin DOMAIN credentials
    /\ DOMAIN credentials = {"username", "password", "client_id"}
    /\ call.op = "get_single_data"
    /\ result = Raise("AttributeError")

\* C9: upload_document_from_file with a str fails with TypeError and with a Path to
\* nothing with FileNotFoundError, both without a request; with a Path to a file it
\* sends exactly one CreateDocument request, carrying the file's bytes under the
\* file's name and the caller's document_object as the document part.
C9_FromFileSendsDocumentObject ==
    [][ call'.op = "upload_document_from_file" =>
            IF call'.file.kind # "Path"
            THEN result' = Raise("TypeError") /\ requests' = requests
            ELSE IF ~call'.file.exists
            THEN result' = Raise("FileNotFoundError") /\ requests' = requests
            ELSE HasApi =>
                /\ Len(requests') = Len(requests) + 1
                /\ LET sent == requests'[Len(requests')]
                   IN  /\ sent.method = "POST"
                       /\ sent.url = client["api_url"] \o <<"Documents/CreateDocument">>
                       /\ sent.body.part = "files"
                       /\ sent.body.value["fileData"] =
                             [filename |-> call'.file.name, data |-> BytesIO(call'.file.bytes)]
                       /\ sent.body.value["document"].data =
                             JsonDumps(IF call'.document_object = None THEN EmptyDict
                                       ELSE call'.document_object) ]_vars

\* the field of the document link that a module id stands for
ForeignKey(module_id) ==
    CASE module_id = 6 -> "IncidentId"
      [] module_id = 10 -> "CoworkerId"
      [] module_id = 24 -> "EquipmentId"

LastOccurrence(list_in, metakey) ==
    LET keys == { list_in[i][metakey] : i \in { j \in DOMAIN list_in : metakey \in DOMAIN list_in[j] } }
    IN  [key \in keys |->
            list_in[CHOOSE i \in DOMAIN list_in :
                        /\ metakey \in DOMAIN list_in[i]
                        /\ list_in[i][metakey] = key
                        /\ \A j \in DOMAIN list_in :
                              (j > i /\ metakey \in DOMAIN list_in[j])
                                  => list_in[j][metakey] # key]]

\* C10 as claimed: for every record list and key field, list_to_dict returns, and
\* never fails, and what it returns has the key-field values of the list as keys,
\* each with the record of its last occurrence.
C10_AsClaimed ==
    ltd.pc = "done" => ltd.outcome = Return(LastOccurrence(ltd.list_in, ltd.metakey))

\* C10: for every record list whose records all have the key field, list_to_dict
\* returns the dict with the key-field values of the list as keys, each with the
\* record of its last occurrence; a record without the key field makes it raise
\* KeyError.
C10_LastOccurrenceWins ==
    ltd.pc = "done" =>
        IF \A i \in DOMAIN ltd.list_in : ltd.metakey \in DOMAIN ltd.list_in[i]
        THEN ltd.outcome = Return(LastOccurrence(ltd.list_in, ltd.metakey))
        ELSE ltd.outcome = Raise("KeyError")

C10_Witness ==
    /\ ltd.pc = "done"
    /\ ltd.metakey = "Id"
    /\ ltd.list_in = <<[Id |-> 1, Name |-> "a"], [Id |-> 2, Name |-> "a"], [Id |-> 1, Name |-> "b"]>>
    /\ ltd.outcome.kind = "return"
    /\ ltd.outcome.value[1] = [Id |-> 1, Name |-> "b"]

=============================================================================
